---- MODULE Spec2Model ----
(***************************************************************************)
(* A state-machine model of src/app.py: the users, payment_orders,         *)
(* payments and videos tables, the payment gateway's order status, the     *)
(* media folders, and the HTTP handlers that read and write them.          *)
(* Handlers whose interleavings matter (payment_success, payment_webhook,  *)
(* generate_video) are split at their database / gateway / file-system     *)
(* calls; each in-flight request occupies one slot of reqs.                *)
(***************************************************************************)
EXTENDS Integers, Sequences, FiniteSets, TLC

\* ------------------------------------------------------------------ bounds
MaxOrders == 1      \* payment orders that create_payment may create
MaxCalls == 2       \* payment requests started in one behaviour
MaxVideoCalls == 3  \* generate_video requests started in one behaviour
MaxTicks == 2       \* days the clock may advance
MaxVoice == 4       \* longest voice track, seconds
MaxTime == 3        \* largest minTime / maxTime a form carries, seconds
MaxImages == 2      \* most images uploaded with one request
MaxSlides == 5      \* most iterations of the slide-building loop followed
MaxResets == 2      \* reset links requested per user

\* ------------------------------------------------- configuration constants
JWT_EXPIRATION == 86400
\* MAX_VIDEOS_PER_USER is read from the environment (default 10); the model
\* runs the deployment configured with MAX_VIDEOS_PER_USER=2.
MAX_VIDEOS_PER_USER == 2
TRIAL_DAYS == 30
RESET_TOKEN_EXPIRY_HOURS == 1
DEFAULT_DURATION_DAYS == 30

\* e-mail addresses clients sign up with; email is unique, so they also
\* bound the users table
Emails == {"a@x", "b@x"}
\* ids the users table can hand out (AUTO_INCREMENT from 1)
UserIds == 1..Cardinality(Emails)
OrderIds == 1..MaxOrders
\* names generate_unique_filename may return (timestamp plus four random digits)
Filenames == {"video_1.mp4", "video_2.mp4"}
\* secure_filename(file.filename) of the files a client uploads; one request's
\* images, voice and background carry the same name here
UploadNames == {"take_1", "take_2"}
\* IMAGE_FOLDER, VOICE_FOLDER, BACKGROUND_FOLDER
InputFolders == {"images", "voice", "background"}
\* worker threads: two requests are served concurrently
ReqIds == {1, 2}
Passwords == {"pw1", "pw2"}
\* (subscription_type, duration_days) pairs a client sends to create_payment
Plans == {<<"pro", DEFAULT_DURATION_DAYS>>, <<"premium", 365>>}

\* datetime.now().date(): the clock counts seconds, a date is a day number
Date(t) == t \div (24 * 60 * 60)

\* ------------------------------------------------------------------ tokens
\* A JWT is its payload and whether its signature verifies under SECRET_KEY.
\* NoToken stands for the empty string / SQL NULL.
NoToken == [user_id |-> 0, exp |-> 0, sig |-> "none"]
NoHeader == [kind |-> "none", token |-> NoToken]
Bearer(t) == [kind |-> "bearer", token |-> t]
\* an Authorization header without a space ("Bearer", "abc", "")
NoSpaceHeader == [kind |-> "nospace", token |-> NoToken]

VARIABLES
    now,             \* wall clock, seconds
    users,           \* users table: id -> row
    issued,          \* tokens returned to clients so far
    outbox,          \* emails handed to the SMTP relay
    resp,            \* the last HTTP response sent
    gateway,         \* payment gateway: order_id -> order_status
    linked,          \* orders whose payment link was returned to the client
    payment_orders,  \* payment_orders table: order_id -> row
    payments,        \* payments table: order_id -> number of ledger rows
    rowLock,         \* payment_orders row lock (SELECT ... FOR UPDATE) holder
    reqs,            \* in-flight requests: slot -> handler position and locals
    calls,           \* multi-step requests started so far
    deliveries,      \* webhook deliveries received per order
    creditLog,       \* history: subscription updates committed per order
    completions,     \* history: COMPLETED writes committed per order
    videos,          \* videos table: (user_id, filename) -> number of rows
    outFiles,        \* output folders: user_id -> files in new_output/user_<id>
    inputFiles,      \* shared input folders: folder -> the files in it, each a
                     \* pair <<name, request whose upload is its content>>
    slides,          \* the slide-building loop's locals
    resetLog         \* history: reset tokens issued to / used for each user

authVars == <<users, issued, outbox, resetLog>>
payDb == <<payment_orders, payments>>
payVars == <<gateway, linked, payment_orders, payments, rowLock, deliveries,
             creditLog, completions>>
videoVars == <<videos, outFiles, inputFiles, slides>>
vars == <<now, users, issued, outbox, resp, gateway, linked, payment_orders,
          payments, rowLock, reqs, calls, deliveries, creditLog, completions,
          videos, outFiles, inputFiles, slides, resetLog>>

Idle == [kind |-> "idle", pc |-> "idle", user |-> 0, order |-> 0,
         hdr |-> NoHeader, seq |-> 0, st0 |-> "NONE", filename |-> ""]

\* an HTTP response: endpoint, status code, the JSON message where two
\* answers share a code, the Authorization header of the request it answers,
\* and the token in the body
Reply(ep, code, msg, h, tok) ==
    [ep |-> ep, code |-> code, msg |-> msg, hdr |-> h, token |-> tok]
Response(ep, code, h, tok) == Reply(ep, code, "", h, tok)

\* an unhandled exception leaves the view: Flask answers 500 with its own
\* error page instead of the handler's JSON
Raised(ep, h) == Reply(ep, 500, "raised", h, NoToken)

\* no generate_video request is building slides
NoSlides == [pc |-> "idle", voice_duration |-> 0, min_time |-> 0, max_time |-> 0,
             image_paths |-> 0, total_duration |-> 0, img_index |-> 0,
             durations |-> <<>>]

Init ==
    /\ now = 0
    /\ users = <<>>
    /\ issued = {}
    /\ outbox = {}
    /\ resp = Response("none", 0, NoHeader, NoToken)
    /\ gateway = <<>>
    /\ linked = {}
    /\ payment_orders = <<>>
    /\ payments = [o \in OrderIds |-> 0]
    /\ rowLock = [o \in OrderIds |-> 0]
    /\ reqs = [r \in ReqIds |-> Idle]
    /\ calls = 0
    /\ deliveries = [o \in OrderIds |-> 0]
    /\ creditLog = [o \in OrderIds |-> <<>>]
    /\ completions = [o \in OrderIds |-> 0]
    /\ videos = [k \in UserIds \X Filenames |-> 0]
    /\ outFiles = [u \in UserIds |-> {}]
    /\ inputFiles = [d \in InputFolders |-> {}]
    /\ slides = NoSlides
    /\ resetLog = [u \in UserIds |-> <<>>]

\* a new request is served by the first free worker
FreeSlot(r) == reqs[r] = Idle /\ \A q \in ReqIds : q < r => reqs[q] # Idle

\* --------------------------------------------------------------- decorators
\* jwt.encode({'user_id': u, 'exp': now + JWT_EXPIRATION}, SECRET_KEY)
NewToken_ResetExpiry(u) ==
    [user_id |-> u, exp |-> now + RESET_TOKEN_EXPIRY_HOURS * 60 * 60, sig |-> "good"]
NewToken(u) == [user_id |-> u, exp |-> now + JWT_EXPIRATION, sig |-> "good"]

\* jwt.decode: the signature verifies and exp has not passed
JwtValid(t) == t.sig = "good" /\ t.exp > now

\* token_required: code 0 lets the request through to the endpoint with
\* current_user = user; any other code is the HTTP status returned instead.
\* `db` is whether the users SELECT succeeds.
token_required(h, db) ==
    IF h.kind = "none" THEN [code |-> 401, user |-> 0]
    ELSE IF h.kind = "nospace" THEN [code |-> 500, user |-> 0]
    ELSE IF h.token = NoToken THEN [code |-> 401, user |-> 0]
    ELSE IF ~JwtValid(h.token) THEN [code |-> 401, user |-> 0]
    ELSE IF ~db THEN [code |-> 401, user |-> 0]
    ELSE IF h.token.user_id \notin DOMAIN users THEN [code |-> 401, user |-> 0]
    ELSE [code |-> 0, user |-> h.token.user_id]

\* subscription_required: token_required plus the expiry check
subscription_required(h, db) ==
    LET a == token_required(h, db) IN
    IF a.code # 0 THEN a
    ELSE IF users[a.user].subscription_expiry < Date(now)
         THEN [code |-> 403, user |-> 0]
         ELSE a

\* headers a client may send: none, one without a space, an empty token,
\* every token ever issued, a forged one and one naming no user
Headers ==
    {NoHeader, NoSpaceHeader, Bearer(NoToken)}
        \cup {Bearer(t) : t \in issued}
        \cup {Bearer([t EXCEPT !.sig = "bad"]) : t \in issued}
        \cup {Bearer([user_id |-> 0, exp |-> now + JWT_EXPIRATION,
                       sig |-> "good"])}

\* ------------------------------------------------------------------- clock
Tick ==
    /\ now < MaxTicks * 24 * 60 * 60
    /\ now' = now + 24 * 60 * 60
    /\ UNCHANGED <<videoVars, resetLog, users, issued, outbox, resp, gateway, linked, payment_orders,
                   payments, rowLock, reqs, calls, deliveries, creditLog, completions>>

\* -------------------------------------------------------------------- auth
UserByEmail(e) == {u \in DOMAIN users : users[u].email = e}

\* if data['password'] != data['confirmPassword']
PasswordsDiffer_Never(pw, cpw) == FALSE
PasswordsDiffer(pw, cpw) == pw # cpw

\* the users row signup inserts, with the auth_key its UPDATE stores
NewUser(e, pw, token) ==
    [email |-> e, password |-> pw, subscription |-> "free",
     subscription_expiry |-> Date(now) + TRIAL_DAYS,
     auth_key |-> token, reset_token |-> NoToken, reset_token_expiry |-> 0]

\* POST /signup.  fields: all four required fields present; mail: SMTP works
signup(e, pw, cpw, fields, db, mail) ==
    /\ UNCHANGED <<videoVars, resetLog, now, payVars, reqs, calls>>
    /\ IF ~fields
       THEN /\ resp' = Reply("signup", 400, "Missing required fields", NoHeader, NoToken)
            /\ UNCHANGED authVars
       ELSE IF PasswordsDiffer(pw, cpw)
       THEN /\ resp' = Reply("signup", 400, "Passwords do not match", NoHeader, NoToken)
            /\ UNCHANGED authVars
       ELSE IF ~db
       THEN /\ resp' = Response("signup", 500, NoHeader, NoToken)
            /\ UNCHANGED authVars
       ELSE IF UserByEmail(e) # {}
       THEN /\ resp' = Response("signup", 409, NoHeader, NoToken)
            /\ UNCHANGED authVars
       ELSE /\ LET id == Len(users) + 1
                   token == NewToken(id)
               IN /\ users' = Append(users, NewUser(e, pw, token))
                  /\ issued' = issued \cup {token}
                  /\ resp' = Response("signup", 201, NoHeader, token)
            /\ outbox' = IF mail THEN outbox \cup {<<"welcome", e>>} ELSE outbox

\* if user['password'] != data['password']
WrongPassword_Never(stored, given) == FALSE
WrongPassword(stored, given) == stored # given

\* POST /signin.  fields: email and password present
signin(e, pw, fields, db) ==
    /\ UNCHANGED <<videoVars, resetLog, now, outbox, payVars, reqs, calls>>
    /\ IF ~fields
       THEN /\ resp' = Response("signin", 400, NoHeader, NoToken)
            /\ UNCHANGED <<users, issued>>
       ELSE IF ~db
       THEN /\ resp' = Response("signin", 500, NoHeader, NoToken)
            /\ UNCHANGED <<users, issued>>
       ELSE IF UserByEmail(e) = {}
       THEN /\ resp' = Response("signin", 404, NoHeader, NoToken)
            /\ UNCHANGED <<users, issued>>
       ELSE LET u == CHOOSE x \in UserByEmail(e) : TRUE IN
            IF WrongPassword(users[u].password, pw)
            THEN /\ resp' = Response("signin", 401, NoHeader, NoToken)
                 /\ UNCHANGED <<users, issued>>
            ELSE LET token == NewToken(u) IN
                 /\ users' = [users EXCEPT ![u].auth_key = token]
                 /\ issued' = issued \cup {token}
                 /\ resp' = Response("signin", 200, NoHeader, token)

\* POST /logout (token_required)
logout(h, dbAuth, db) ==
    /\ UNCHANGED <<videoVars, resetLog, now, issued, outbox, payVars, reqs, calls>>
    /\ LET a == token_required(h, dbAuth) IN
       IF a.code # 0
       THEN /\ resp' = Response("logout", a.code, h, NoToken)
            /\ UNCHANGED users
       ELSE IF ~db
       THEN /\ resp' = Response("logout", 500, h, NoToken)
            /\ UNCHANGED users
       ELSE /\ users' = [users EXCEPT ![a.user].auth_key = NoToken]
            /\ resp' = Response("logout", 200, h, NoToken)

\* POST /signup as its two database phases, for requests served concurrently:
\* the validation and the SELECT by email ...
SignupLookup(r, e, pw, cpw, fields, db) ==
    /\ FreeSlot(r)
    /\ calls < MaxCalls
    /\ calls' = calls + 1
    /\ UNCHANGED <<videoVars, now, authVars, payVars>>
    /\ IF ~fields
       THEN /\ resp' = Reply("signup", 400, "Missing required fields", NoHeader, NoToken)
            /\ UNCHANGED reqs
       ELSE IF PasswordsDiffer(pw, cpw)
       THEN /\ resp' = Reply("signup", 400, "Passwords do not match", NoHeader, NoToken)
            /\ UNCHANGED reqs
       ELSE IF ~db
       THEN /\ resp' = Response("signup", 500, NoHeader, NoToken)
            /\ UNCHANGED reqs
       ELSE IF UserByEmail(e) # {}
       THEN /\ resp' = Response("signup", 409, NoHeader, NoToken)
            /\ UNCHANGED reqs
       ELSE /\ reqs' = [reqs EXCEPT ![r] =
                  [kind |-> "signup", pc |-> "insert", user |-> 0, order |-> 0,
                   hdr |-> NoHeader, seq |-> calls + 1, st0 |-> "NONE",
                   filename |-> "", email |-> e, password |-> pw]]
            /\ UNCHANGED resp

\* ... and the INSERT, the token, the UPDATE of auth_key, the welcome mail and
\* the answer.  db: "ok", "insert_fails" (the INSERT raises) or
\* "update_fails" (the row is committed and the UPDATE of auth_key raises)
SignupInsert(r, db, mail) ==
    /\ reqs[r].kind = "signup" /\ reqs[r].pc = "insert"
    /\ UNCHANGED <<videoVars, resetLog, now, payVars, calls>>
    /\ reqs' = [reqs EXCEPT ![r] = Idle]
    /\ LET id == Len(users) + 1
           token == NewToken(id)
       IN
       IF db = "insert_fails"
       THEN /\ resp' = Response("signup", 500, NoHeader, NoToken)
            /\ UNCHANGED authVars
       ELSE IF db = "update_fails"
       THEN /\ users' = Append(users, NewUser(reqs[r].email, reqs[r].password, NoToken))
            /\ resp' = Response("signup", 500, NoHeader, NoToken)
            /\ UNCHANGED <<issued, outbox>>
       ELSE /\ users' = Append(users, NewUser(reqs[r].email, reqs[r].password, token))
            /\ issued' = issued \cup {token}
            /\ outbox' = IF mail THEN outbox \cup {<<"welcome", reqs[r].email>>}
                                 ELSE outbox
            /\ resp' = Response("signup", 201, NoHeader, token)

\* GET|POST /session (no decorator): returns the user's current token, and
\* replaces it first when it no longer verifies.  fields: an email was given
get_session(e, fields, db) ==
    /\ UNCHANGED <<videoVars, resetLog, now, outbox, payVars, reqs, calls>>
    /\ IF ~fields
       THEN /\ resp' = Response("session", 400, NoHeader, NoToken)
            /\ UNCHANGED <<users, issued>>
       ELSE IF ~db
       THEN /\ resp' = Response("session", 500, NoHeader, NoToken)
            /\ UNCHANGED <<users, issued>>
       ELSE IF UserByEmail(e) = {}
       THEN /\ resp' = Response("session", 404, NoHeader, NoToken)
            /\ UNCHANGED <<users, issued>>
       ELSE LET u == CHOOSE x \in UserByEmail(e) : TRUE IN
            IF users[u].auth_key = NoToken
            THEN /\ resp' = Reply("session", 200, "logged out", NoHeader, NoToken)
                 /\ UNCHANGED <<users, issued>>
            ELSE IF JwtValid(users[u].auth_key)
            THEN /\ resp' = Response("session", 200, NoHeader, users[u].auth_key)
                 /\ UNCHANGED <<users, issued>>
            ELSE LET new_token == NewToken(u) IN
                 /\ users' = [users EXCEPT ![u].auth_key = new_token]
                 /\ issued' = issued \cup {new_token}
                 /\ resp' = Response("session", 200, NoHeader, new_token)

\* jwt.encode({'user_id': u, 'exp': now + RESET_TOKEN_EXPIRY_HOURS hours})
ResetToken(u) ==
    [user_id |-> u, exp |-> now + RESET_TOKEN_EXPIRY_HOURS * 60 * 60, sig |-> "good"]

\* POST /forgot-password (no decorator, no try).  fields: the body has an
\* email; db: get_db_connection returns a connection; mail: SMTP works
forgot_password(e, fields, db, mail) ==
    /\ UNCHANGED <<videoVars, now, issued, payVars, reqs, calls>>
    /\ IF ~fields
       THEN /\ resp' = Reply("forgot_password", 400, "Email is required", NoHeader, NoToken)
            /\ UNCHANGED <<users, outbox, resetLog>>
       ELSE IF ~db
       THEN /\ resp' = Raised("forgot_password", NoHeader)
            /\ UNCHANGED <<users, outbox, resetLog>>
       ELSE IF UserByEmail(e) = {}
       THEN /\ resp' = Reply("forgot_password", 200,
                             "If the email exists, a reset link will be sent",
                             NoHeader, NoToken)
            /\ UNCHANGED <<users, outbox, resetLog>>
       ELSE LET u == CHOOSE x \in UserByEmail(e) : TRUE
                token == ResetToken(u)
            IN
            /\ users' = [users EXCEPT ![u].reset_token = token,
                                      ![u].reset_token_expiry = token.exp]
            /\ resetLog' = [resetLog EXCEPT ![u] = Append(@, [ev |-> "issued", token |-> token])]
            /\ IF mail
               THEN /\ outbox' = outbox \cup {<<"reset", e, token>>}
                    /\ resp' = Reply("forgot_password", 200, "Password reset link sent",
                                     NoHeader, NoToken)
               ELSE /\ resp' = Reply("forgot_password", 500, "Failed to send email",
                                     NoHeader, NoToken)
                    /\ UNCHANGED outbox

\* SELECT * FROM users WHERE id = %s AND reset_token = %s
ResetTokenRow_AnyToken(user_id, token) == user_id \in DOMAIN users
ResetTokenRow(user_id, token) ==
    user_id \in DOMAIN users /\ users[user_id].reset_token = token

\* the row reset_password's UPDATE leaves: the new password, reset_token and
\* reset_token_expiry NULL
ResetRow_KeepToken(row, new_password) == [row EXCEPT !.password = new_password]
ResetRow(row, new_password) ==
    [row EXCEPT !.password = new_password, !.reset_token = NoToken,
                !.reset_token_expiry = 0]

\* POST /reset-password (no decorator).  fields: token and new_password are
\* present; db: get_db_connection returns a connection
reset_password(token, new_password, fields, db) ==
    /\ UNCHANGED <<videoVars, now, issued, outbox, payVars, reqs, calls>>
    /\ IF ~fields \/ token = NoToken
       THEN /\ resp' = Reply("reset_password", 400, "Token and new password are required",
                             NoHeader, NoToken)
            /\ UNCHANGED <<users, resetLog>>
       ELSE IF token.sig # "good"
       THEN /\ resp' = Reply("reset_password", 400, "Invalid token", NoHeader, NoToken)
            /\ UNCHANGED <<users, resetLog>>
       ELSE IF ~JwtValid(token)
       THEN /\ resp' = Reply("reset_password", 400, "Token expired", NoHeader, NoToken)
            /\ UNCHANGED <<users, resetLog>>
       ELSE IF ~db
       THEN /\ resp' = Response("reset_password", 500, NoHeader, NoToken)
            /\ UNCHANGED <<users, resetLog>>
       ELSE IF ~ResetTokenRow(token.user_id, token)
       THEN /\ resp' = Reply("reset_password", 400, "Invalid token", NoHeader, NoToken)
            /\ UNCHANGED <<users, resetLog>>
       ELSE LET u == token.user_id IN
            IF users[u].reset_token_expiry # 0 /\ users[u].reset_token_expiry < now
            THEN /\ resp' = Reply("reset_password", 400, "Token expired", NoHeader, NoToken)
                 /\ UNCHANGED <<users, resetLog>>
            ELSE /\ users' = [users EXCEPT ![u] = ResetRow(@, new_password)]
                 /\ resetLog' = [resetLog EXCEPT ![u] =
                                    Append(@, [ev |-> "used", token |-> token])]
                 /\ resp' = Reply("reset_password", 200, "reset", NoHeader, NoToken)

\* POST /update-subscription (no decorator): sets any user's subscription
update_subscription(u, sub, expiry, fields, db) ==
    /\ UNCHANGED <<videoVars, resetLog, now, issued, outbox, payVars, reqs, calls>>
    /\ IF ~fields
       THEN /\ resp' = Response("update_subscription", 400, NoHeader, NoToken)
            /\ UNCHANGED users
       ELSE IF ~db
       THEN /\ resp' = Response("update_subscription", 500, NoHeader, NoToken)
            /\ UNCHANGED users
       ELSE /\ users' = [x \in DOMAIN users |->
                           IF x = u THEN [users[x] EXCEPT !.subscription = sub,
                                                           !.subscription_expiry = expiry]
                                    ELSE users[x]]
            /\ resp' = Response("update_subscription", 200, NoHeader, NoToken)

\* ---------------------------------------------------------------- payments
OrderRow(u, plan) ==
    [user_id |-> u, subscription_type |-> plan[1], duration_days |-> plan[2],
     status |-> "INITIATED"]

StoredStatus(o) ==
    IF o \in DOMAIN payment_orders THEN payment_orders[o].status ELSE "NONE"

\* requests.get(f"{CASHFREE_BASE_URL}/orders/{order_id}"): the HTTP status and
\* order_status the gateway answers with; gw is whether the gateway is reachable
GatewayFetch_AlwaysPaid(o, gw) == [status_code |-> 200, order_status |-> "PAID"]
GatewayFetch(o, gw) ==
    IF gw /\ o \in DOMAIN gateway
    THEN [status_code |-> 200, order_status |-> gateway[o]]
    ELSE [status_code |-> 404, order_status |-> "NONE"]

\* POST /create_payment (token_required).  gw: the gateway's answer to the
\* order POST ("ok", "nocf": 200 without cf_order_id, "fail": not 200)
create_payment(h, dbAuth, plan, fields, gw, db) ==
    /\ UNCHANGED <<videoVars, now, authVars, payments, rowLock, deliveries, creditLog,
                   completions, reqs, calls>>
    /\ LET a == token_required(h, dbAuth)
           o == Len(gateway) + 1
       IN
       IF a.code # 0
       THEN /\ resp' = Response("create_payment", a.code, h, NoToken)
            /\ UNCHANGED <<gateway, linked, payment_orders>>
       ELSE IF ~fields \/ gw # "ok"
       THEN /\ resp' = Response("create_payment", 400, h, NoToken)
            /\ UNCHANGED <<gateway, linked, payment_orders>>
       ELSE /\ o \in OrderIds
            /\ gateway' = Append(gateway, "ACTIVE")
            /\ IF db
               THEN /\ payment_orders' =
                        [x \in DOMAIN payment_orders \cup {o} |->
                            IF x = o THEN OrderRow(a.user, plan) ELSE payment_orders[x]]
                    /\ linked' = linked \cup {o}
                    /\ resp' = Response("create_payment", 200, h, NoToken)
               ELSE /\ resp' = Response("create_payment", 500, h, NoToken)
                    /\ UNCHANGED <<linked, payment_orders>>

\* the customer pays through the payment link: the gateway marks the order PAID
GatewayPay(o) ==
    /\ o \in linked
    /\ gateway[o] = "ACTIVE"
    /\ gateway' = [gateway EXCEPT ![o] = "PAID"]
    /\ UNCHANGED <<videoVars, now, authVars, resp, linked, payment_orders, payments, rowLock,
                   reqs, calls, deliveries, creditLog, completions>>

\* update_subscription_status(user_id, subscription_type, duration_days):
\* the users table after its UPDATE commits
update_subscription_status_TrialDays(user_id, subscription_type, duration_days) ==
    [users EXCEPT ![user_id].subscription = subscription_type,
                  ![user_id].subscription_expiry = Date(now) + TRIAL_DAYS]
update_subscription_status(user_id, subscription_type, duration_days) ==
    [users EXCEPT ![user_id].subscription = subscription_type,
                  ![user_id].subscription_expiry = Date(now) + duration_days]

\* save_payment_record(order_id, ...): the payments table after its INSERT commits
save_payment_record(order_id) ==
    [payments EXCEPT ![order_id] = @ + 1]

\* UPDATE payment_orders SET status = 'COMPLETED' WHERE order_id = %s
MarkCompleted(order_id) ==
    [payment_orders EXCEPT ![order_id].status = "COMPLETED"]

CreditEntry(by, r, u, o) ==
    [by |-> by, seq |-> reqs[r].seq, st0 |-> reqs[r].st0, user |-> u,
     subscription |-> users'[u].subscription,
     subscription_expiry |-> users'[u].subscription_expiry, day |-> Date(now)]

FinishMsg(r, ep, code, msg) ==
    /\ reqs' = [reqs EXCEPT ![r] = Idle]
    /\ resp' = Reply(ep, code, msg, reqs[r].hdr, NoToken)
Finish(r, ep, code) == FinishMsg(r, ep, code, "")

\* GET /payment_success (token_required): decorator and gateway fetch
PollStart(r, h, dbAuth, o, gw) ==
    /\ FreeSlot(r)
    /\ calls < MaxCalls
    /\ calls' = calls + 1
    /\ UNCHANGED <<videoVars, now, authVars, payVars>>
    /\ LET a == token_required(h, dbAuth)
           g == GatewayFetch(o, gw)
       IN
       IF a.code # 0
       THEN /\ resp' = Response("payment_success", a.code, h, NoToken)
            /\ UNCHANGED reqs
       ELSE IF g.status_code # 200
       THEN /\ resp' = Response("payment_success", 400, h, NoToken)
            /\ UNCHANGED reqs
       ELSE IF g.order_status # "PAID"
       THEN /\ resp' = Response("payment_success", 200, h, NoToken)
            /\ UNCHANGED reqs
       ELSE /\ reqs' = [reqs EXCEPT ![r] =
                  [kind |-> "payment_success", pc |-> "select", user |-> a.user,
                   order |-> o, hdr |-> h, seq |-> 0, st0 |-> StoredStatus(o),
                   filename |-> ""]]
            /\ UNCHANGED resp

\* SELECT * FROM payment_orders WHERE order_id = %s AND user_id = %s: whether
\* it returns a row
OrderDetails_AnyUser(order_id, user_id) == order_id \in DOMAIN payment_orders
OrderDetails(order_id, user_id) ==
    /\ order_id \in DOMAIN payment_orders
    /\ payment_orders[order_id].user_id = user_id

\* conn = get_db_connection(); the SELECT; "if order_details"
PollSelect(r, db) ==
    /\ reqs[r].kind = "payment_success" /\ reqs[r].pc = "select"
    /\ UNCHANGED <<videoVars, now, authVars, payVars, calls>>
    /\ LET o == reqs[r].order IN
       IF ~db
       THEN Finish(r, "payment_success", 500)
       ELSE IF OrderDetails(o, reqs[r].user)
       THEN /\ reqs' = [reqs EXCEPT ![r].pc = "update_subscription"]
            /\ UNCHANGED resp
       ELSE FinishMsg(r, "payment_success", 200, "PAID")

\* success = update_subscription_status(current_user['id'], ...)
PollUpdateSubscription(r, db) ==
    /\ reqs[r].kind = "payment_success" /\ reqs[r].pc = "update_subscription"
    /\ UNCHANGED <<videoVars, resetLog, now, issued, outbox, gateway, linked, payDb, rowLock,
                   deliveries, completions, calls>>
    /\ LET o == reqs[r].order
           u == reqs[r].user
       IN
       IF db
       THEN /\ users' = update_subscription_status(u,
                            payment_orders[o].subscription_type,
                            payment_orders[o].duration_days)
            /\ creditLog' = [creditLog EXCEPT ![o] = Append(@, CreditEntry("poll", r, u, o))]
            /\ reqs' = [reqs EXCEPT ![r].pc = "save_payment"]
            /\ UNCHANGED resp
       ELSE /\ FinishMsg(r, "payment_success", 200, "PAID")
            /\ UNCHANGED <<users, creditLog>>

\* save_payment_record(order_id, ...): its result is not looked at
PollSavePayment(r, db) ==
    /\ reqs[r].kind = "payment_success" /\ reqs[r].pc = "save_payment"
    /\ UNCHANGED <<videoVars, now, authVars, resp, gateway, linked, payment_orders, rowLock,
                   deliveries, creditLog, completions, calls>>
    /\ payments' = IF db THEN save_payment_record(reqs[r].order) ELSE payments
    /\ reqs' = [reqs EXCEPT ![r].pc = "mark"]

\* UPDATE payment_orders SET status = 'COMPLETED' ...; conn.commit().
\* The UPDATE waits while another transaction holds the row lock.
PollMark(r, db) ==
    /\ reqs[r].kind = "payment_success" /\ reqs[r].pc = "mark"
    /\ rowLock[reqs[r].order] = 0
    /\ UNCHANGED <<videoVars, now, authVars, gateway, linked, payments, rowLock, deliveries,
                   creditLog, calls>>
    /\ LET o == reqs[r].order IN
       IF db
       THEN /\ payment_orders' = MarkCompleted(o)
            /\ completions' = [completions EXCEPT ![o] = @ + 1]
            /\ FinishMsg(r, "payment_success", 200, "PAID")
       ELSE /\ Finish(r, "payment_success", 500)
            /\ UNCHANGED <<payment_orders, completions>>

\* existing_order and existing_order['status'] == 'COMPLETED'
AlreadyProcessed_Never(o) == FALSE
AlreadyProcessed(o) == StoredStatus(o) = "COMPLETED"

\* POST /payment_webhook (no decorator): payload checks and gateway fetch.
\* valid: the payload has data.order.order_id
WebhookStart(r, o, valid, gw) ==
    /\ FreeSlot(r)
    /\ calls < MaxCalls
    /\ calls' = calls + 1
    /\ UNCHANGED <<videoVars, now, authVars, gateway, linked, payDb, rowLock, creditLog, completions>>
    /\ LET g == GatewayFetch(o, gw) IN
       IF ~valid
       THEN /\ resp' = Response("payment_webhook", 400, NoHeader, NoToken)
            /\ UNCHANGED <<reqs, deliveries>>
       ELSE /\ deliveries' = [deliveries EXCEPT ![o] = @ + 1]
            /\ IF g.status_code # 200
               THEN /\ resp' = Response("payment_webhook", 400, NoHeader, NoToken)
                    /\ UNCHANGED reqs
               ELSE IF g.order_status # "PAID"
               THEN /\ resp' = Reply("payment_webhook", 200, "pending", NoHeader, NoToken)
                    /\ UNCHANGED reqs
               ELSE /\ reqs' = [reqs EXCEPT ![r] =
                          [kind |-> "payment_webhook", pc |-> "lock", user |-> 0,
                           order |-> o, hdr |-> NoHeader, seq |-> deliveries'[o],
                           st0 |-> StoredStatus(o), filename |-> ""]]
                    /\ UNCHANGED resp

\* mysql.connector.connect; SELECT status ... FOR UPDATE; the COMPLETED check;
\* SELECT * FROM payment_orders.  The locking read waits for the row lock and
\* keeps it until the transaction ends.
WebhookLock(r, db) ==
    /\ reqs[r].kind = "payment_webhook" /\ reqs[r].pc = "lock"
    /\ rowLock[reqs[r].order] = 0
    /\ UNCHANGED <<videoVars, now, authVars, gateway, linked, payDb, deliveries, creditLog,
                   completions, calls>>
    /\ LET o == reqs[r].order IN
       IF ~db
       THEN Finish(r, "payment_webhook", 500) /\ UNCHANGED rowLock
       ELSE IF AlreadyProcessed(o)
       THEN FinishMsg(r, "payment_webhook", 200, "already processed") /\ UNCHANGED rowLock
       ELSE IF StoredStatus(o) = "NONE"
       THEN Finish(r, "payment_webhook", 404) /\ UNCHANGED rowLock
       ELSE /\ rowLock' = [rowLock EXCEPT ![o] = r]
            /\ reqs' = [reqs EXCEPT ![r].pc = "apply"]
            /\ UNCHANGED resp

\* The users, payments and payment_orders tables other connections see once
\* the webhook's transaction has ended.  fail: 0 when every statement and the
\* commit succeed, k when the k-th of the three statements raises.
\* conn.commit() publishes the three writes together; conn.rollback() in the
\* except branch discards the ones already executed.
WebhookTables_AutoCommit(o, u, fail) ==
    <<IF fail = 1 THEN users
      ELSE update_subscription_status(u, payment_orders[o].subscription_type,
                                      payment_orders[o].duration_days),
      IF fail \in {1, 2} THEN payments ELSE save_payment_record(o),
      IF fail = 0 THEN MarkCompleted(o) ELSE payment_orders>>
WebhookTables(o, u, fail) ==
    IF fail = 0
    THEN <<update_subscription_status(u, payment_orders[o].subscription_type,
                                      payment_orders[o].duration_days),
           save_payment_record(o),
           MarkCompleted(o)>>
    ELSE <<users, payments, payment_orders>>

\* UPDATE users; INSERT INTO payments; UPDATE payment_orders; conn.commit()
\* -- or, when one of them raises, conn.rollback().  Either way the
\* transaction ends and the row lock is released.
WebhookApply(r, db) ==
    /\ reqs[r].kind = "payment_webhook" /\ reqs[r].pc = "apply"
    /\ UNCHANGED <<videoVars, resetLog, now, issued, outbox, gateway, linked, deliveries, calls>>
    /\ LET o == reqs[r].order
           u == payment_orders[o].user_id
       IN
       /\ rowLock' = [rowLock EXCEPT ![o] = 0]
       /\ \E fail \in (IF db THEN {0} ELSE 1..3) :
             LET t == WebhookTables(o, u, fail) IN
             /\ users' = t[1]
             /\ payments' = t[2]
             /\ payment_orders' = t[3]
             /\ IF fail = 0
                THEN /\ creditLog' = [creditLog EXCEPT ![o] =
                                         Append(@, CreditEntry("webhook", r, u, o))]
                     /\ completions' = [completions EXCEPT ![o] = @ + 1]
                     /\ FinishMsg(r, "payment_webhook", 200, "processed")
                ELSE /\ Finish(r, "payment_webhook", 500)
                     /\ UNCHANGED <<creditLog, completions>>

\* ------------------------------------------------------------------ videos
RECURSIVE SumRows(_, _)
SumRows(u, F) ==
    IF F = {} THEN 0
    ELSE LET f == CHOOSE x \in F : TRUE IN videos[<<u, f>>] + SumRows(u, F \ {f})

\* SELECT COUNT(*) FROM videos WHERE user_id = %s
RowCount(u) == SumRows(u, Filenames)

\* get_user_video_count(user_id): the count, or 0 when the query raises
get_user_video_count(user_id, db) == IF db THEN RowCount(user_id) ELSE 0

\* if video_count >= MAX_VIDEOS_PER_USER: return 403
LimitReached(video_count) == video_count >= MAX_VIDEOS_PER_USER

\* save_video_record(user_id, filename, duration): the videos table after
\* its INSERT commits
save_video_record(user_id, filename) ==
    [videos EXCEPT ![<<user_id, filename>>] = @ + 1]

\* clear_folder on IMAGE_FOLDER, VOICE_FOLDER and BACKGROUND_FOLDER
ClearedInputs == [d \in InputFolders |-> {}]

\* GET /check_video_limit (token_required): reads the count, writes nothing
check_video_limit(h, dbAuth) ==
    /\ UNCHANGED <<videoVars, now, authVars, payVars, reqs, calls>>
    /\ LET a == token_required(h, dbAuth) IN
       IF a.code # 0
       THEN resp' = Response("check_video_limit", a.code, h, NoToken)
       ELSE resp' = Response("check_video_limit", 200, h, NoToken)

\* the decorator generate_video is registered with
generate_video_auth(h, db) == token_required(h, db)

\* POST /generate_video: decorator, limit check, form and file validation.
\* form: "ok", "bad_number" (float() raises) or "missing_files"
GenStart(r, h, dbAuth, dbCount, form) ==
    /\ FreeSlot(r)
    /\ calls < MaxVideoCalls
    /\ calls' = calls + 1
    /\ UNCHANGED <<videoVars, now, authVars, payVars>>
    /\ LET a == generate_video_auth(h, dbAuth) IN
       IF a.code # 0
       THEN /\ resp' = Reply("generate_video", a.code,
                             IF a.code = 403 THEN "Subscription expired" ELSE "",
                             h, NoToken)
            /\ UNCHANGED reqs
       ELSE IF LimitReached(get_user_video_count(a.user, dbCount))
       THEN /\ resp' = Reply("generate_video", 403, "maximum limit", h, NoToken)
            /\ UNCHANGED reqs
       ELSE IF form = "bad_number"
       THEN /\ resp' = Response("generate_video", 500, h, NoToken)
            /\ UNCHANGED reqs
       ELSE IF form = "missing_files"
       THEN /\ resp' = Response("generate_video", 400, h, NoToken)
            /\ UNCHANGED reqs
       ELSE /\ reqs' = [reqs EXCEPT ![r] =
                  [kind |-> "generate_video", pc |-> "upload", user |-> a.user,
                   order |-> 0, hdr |-> h, seq |-> calls + 1, st0 |-> "NONE",
                   filename |-> "", upload |-> ""]]
            /\ UNCHANGED resp

\* os.path.join(folder, secure_filename(...)) is readable: the folder holds a
\* file of that name
HasFile(d, name) == \E p \in inputFiles[d] : p[1] = name

\* clear the three input folders, then save the uploads into them under the
\* names the client gave them
GenUpload(r, io, name) ==
    /\ reqs[r].kind = "generate_video" /\ reqs[r].pc = "upload"
    /\ UNCHANGED <<now, authVars, payVars, calls, videos, outFiles, slides>>
    /\ IF io
       THEN /\ inputFiles' = [d \in InputFolders |-> {<<name, reqs[r].seq>>}]
            /\ reqs' = [reqs EXCEPT ![r].pc = "render", ![r].upload = name]
            /\ UNCHANGED resp
       ELSE /\ inputFiles' = ClearedInputs
            /\ Finish(r, "generate_video", 500)

\* the rendering step, were the videos row inserted before the file is written
GenRender_RecordFirst(r, ok, f) ==
    /\ reqs[r].kind = "generate_video" /\ reqs[r].pc = "render"
    /\ UNCHANGED <<now, authVars, payVars, calls, inputFiles, slides>>
    /\ videos' = [videos EXCEPT ![<<reqs[r].user, f>>] = @ + 1]
    /\ IF ok /\ \A d \in InputFolders : HasFile(d, reqs[r].upload)
       THEN /\ outFiles' = [outFiles EXCEPT ![reqs[r].user] = @ \cup {f}]
            /\ reqs' = [reqs EXCEPT ![r].pc = "save", ![r].filename = f]
            /\ UNCHANGED resp
       ELSE /\ reqs' = [reqs EXCEPT ![r] = Idle]
            /\ resp' = Reply("generate_video", 500, "", reqs[r].hdr, NoToken)
            /\ UNCHANGED outFiles

\* load the audio and the images from the input folders, build the clips and
\* write the video into the user's output folder as filename f
GenRender(r, ok, f) ==
    /\ reqs[r].kind = "generate_video" /\ reqs[r].pc = "render"
    /\ UNCHANGED <<now, authVars, payVars, calls, videos, inputFiles, slides>>
    /\ IF ok /\ \A d \in InputFolders : HasFile(d, reqs[r].upload)
       THEN /\ outFiles' = [outFiles EXCEPT ![reqs[r].user] = @ \cup {f}]
            /\ reqs' = [reqs EXCEPT ![r].pc = "save", ![r].filename = f]
            /\ UNCHANGED resp
       ELSE /\ Finish(r, "generate_video", 500)
            /\ UNCHANGED outFiles

\* save_video_record (its result is not looked at), clear the input
\* folders, count again and answer 200
GenSave(r, db) ==
    /\ reqs[r].kind = "generate_video" /\ reqs[r].pc = "save"
    /\ UNCHANGED <<now, authVars, payVars, calls, outFiles, slides>>
    /\ videos' = IF db THEN save_video_record(reqs[r].user, reqs[r].filename) ELSE videos
    /\ inputFiles' = ClearedInputs
    /\ Finish(r, "generate_video", 200)

\* ------------------------------------------------------------ slide loop
\* The loop of generate_video that builds the clips, followed one iteration
\* at a time.  Durations are whole seconds.

\* get_random_duration(min_time, max_time) = random.uniform(min_time, max_time):
\* any value between the two arguments, whichever is the larger
get_random_duration(min_time, max_time) ==
    IF min_time <= max_time THEN min_time..max_time ELSE max_time..min_time

\* min(a, b)
Min(a, b) == IF a <= b THEN a ELSE b

\* while total_duration < voice_duration and image_paths:
LoopCondition == slides.total_duration < slides.voice_duration /\ slides.image_paths > 0

\* the form's minTime and maxTime, the voice track's duration and the images
\* saved; clips = [], total_duration = 0, img_index = 0
SlideLoopBegin(voice_duration, min_time, max_time, images) ==
    /\ slides.pc = "idle"
    /\ slides' = [pc |-> "loop", voice_duration |-> voice_duration,
                  min_time |-> min_time, max_time |-> max_time,
                  image_paths |-> images, total_duration |-> 0, img_index |-> 0,
                  durations |-> <<>>]
    /\ UNCHANGED <<now, authVars, resp, payVars, reqs, calls, videos, outFiles,
                   inputFiles>>

\* one iteration: the random duration trimmed to the time that remains
SlideLoopStep ==
    /\ slides.pc = "loop"
    /\ LoopCondition
    /\ slides.img_index < MaxSlides
    /\ \E drawn \in get_random_duration(slides.min_time, slides.max_time) :
          LET duration == Min(drawn, slides.voice_duration - slides.total_duration) IN
          slides' = [slides EXCEPT !.durations = Append(@, duration),
                                   !.total_duration = @ + duration,
                                   !.img_index = @ + 1]
    /\ UNCHANGED <<now, authVars, resp, payVars, reqs, calls, videos, outFiles,
                   inputFiles>>

\* the loop condition is false: the loop ends
SlideLoopEnd ==
    /\ slides.pc = "loop"
    /\ ~LoopCondition
    /\ slides' = [slides EXCEPT !.pc = "done"]
    /\ UNCHANGED <<now, authVars, resp, payVars, reqs, calls, videos, outFiles,
                   inputFiles>>

\* ----------------------------------------------------------- video library
\* a response that carries data: the videos listed or the file served
ReplyBody(ep, code, msg, h, body) ==
    [ep |-> ep, code |-> code, msg |-> msg, hdr |-> h, token |-> NoToken,
     body |-> body]

\* keys a client may send as videoId / filename ("" stands for an absent key)
VideoKeys == Filenames \cup {""}

\* SELECT * FROM videos WHERE filename = %s AND user_id = %s
OwnRow(key, user_id) == key \in Filenames /\ videos[<<user_id, key>>] > 0

\* DELETE FROM videos WHERE filename = %s : the videos table after the
\* statement commits
DeleteRows(key, user_id) ==
    [k \in DOMAIN videos |-> IF k[2] = key THEN 0 ELSE videos[k]]

\* DELETE /delete_video (token_required).  data: the request has a JSON
\* body; db: "ok", "down" (get_db_connection returns None), "select_fails"
\* or "delete_fails"; rm: os.remove succeeds.  The finally block closes
\* cursor and conn, which are unbound on every path that leaves before
\* conn.cursor() has returned.
delete_video(h, dbAuth, data, video_id, filename, db, rm) ==
    /\ UNCHANGED <<now, authVars, payVars, reqs, calls, inputFiles, slides>>
    /\ LET a == token_required(h, dbAuth)
           key == IF video_id # "" THEN video_id ELSE filename
       IN
       IF a.code # 0
       THEN /\ resp' = Response("delete_video", a.code, h, NoToken)
            /\ UNCHANGED <<videos, outFiles>>
       ELSE IF ~data \/ (video_id = "" /\ filename = "") \/ db = "down"
       THEN /\ resp' = Raised("delete_video", h)
            /\ UNCHANGED <<videos, outFiles>>
       ELSE IF db = "select_fails"
       THEN /\ resp' = Response("delete_video", 500, h, NoToken)
            /\ UNCHANGED <<videos, outFiles>>
       ELSE IF ~OwnRow(key, a.user)
       THEN /\ resp' = Reply("delete_video", 404, "Video not found or unauthorized",
                             h, NoToken)
            /\ UNCHANGED <<videos, outFiles>>
       ELSE IF key \notin outFiles[a.user]
       THEN /\ resp' = Reply("delete_video", 404, "Video not found", h, NoToken)
            /\ UNCHANGED <<videos, outFiles>>
       ELSE IF ~rm
       THEN /\ resp' = Reply("delete_video", 500, "Failed to delete video", h, NoToken)
            /\ UNCHANGED <<videos, outFiles>>
       ELSE /\ outFiles' = [outFiles EXCEPT ![a.user] = @ \ {key}]
            /\ IF db = "delete_fails"
               THEN /\ resp' = Response("delete_video", 500, h, NoToken)
                    /\ UNCHANGED videos
               ELSE /\ videos' = DeleteRows(key, a.user)
                    /\ resp' = Reply("delete_video", 200, "Video deleted successfully",
                                     h, NoToken)

\* POST /clear_cache (token_required).  io: clear_folder empties the user's
\* output folder (otherwise it logs the error and returns False); db:
\* get_db_connection returns a connection and the DELETE commits
clear_cache_route(h, dbAuth, io, db) ==
    /\ UNCHANGED <<now, authVars, payVars, reqs, calls, inputFiles, slides>>
    /\ LET a == token_required(h, dbAuth) IN
       IF a.code # 0
       THEN /\ resp' = Response("clear_cache", a.code, h, NoToken)
            /\ UNCHANGED <<videos, outFiles>>
       ELSE /\ outFiles' = IF io THEN [outFiles EXCEPT ![a.user] = {}] ELSE outFiles
            /\ IF ~db
               THEN /\ resp' = Response("clear_cache", 500, h, NoToken)
                    /\ UNCHANGED videos
               ELSE /\ videos' = [k \in DOMAIN videos |->
                                     IF k[1] = a.user THEN 0 ELSE videos[k]]
                    /\ resp' = Response("clear_cache", IF io THEN 200 ELSE 500,
                                        h, NoToken)

\* rows of videos WHERE user_id = %s
RowsOf(user_id) == {k \in DOMAIN videos : k[1] = user_id /\ videos[k] > 0}

\* LIMIT %s OFFSET %s over the caller's rows: created_at is not part of the
\* state, so a page is any set of the right size
Page(rows, page, limit) ==
    LET left == Cardinality(rows) - (page - 1) * limit
        n == IF left < 0 THEN 0 ELSE IF left < limit THEN left ELSE limit
    IN {P \in SUBSET rows : Cardinality(P) = n}

\* GET /get_videos (token_required).  args: page and limit parse as integers
get_videos(h, dbAuth, args, page, limit, db) ==
    /\ UNCHANGED <<videoVars, now, authVars, payVars, reqs, calls>>
    /\ LET a == token_required(h, dbAuth) IN
       IF a.code # 0
       THEN resp' = Response("get_videos", a.code, h, NoToken)
       ELSE IF ~args \/ ~db
       THEN resp' = Response("get_videos", 500, h, NoToken)
       ELSE \E P \in Page(RowsOf(a.user), page, limit) :
               resp' = ReplyBody("get_videos", 200, "", h, P)

\* GET /video/<filename> (no decorator): the owner is looked up by filename
\* alone and the file is sent from that owner's folder
serve_video(h, filename, db) ==
    /\ UNCHANGED <<videoVars, now, authVars, payVars, reqs, calls>>
    /\ LET owners == {u \in UserIds : videos[<<u, filename>>] > 0} IN
       IF ~db \/ owners = {}
       THEN resp' = Response("serve_video", 404, h, NoToken)
       ELSE \E u \in owners :
               IF filename \in outFiles[u]
               THEN resp' = ReplyBody("serve_video", 200, "", h, {<<u, filename>>})
               ELSE resp' = Response("serve_video", 404, h, NoToken)

\* ---------------------------------------------------------- specifications
\* The payment flow: a customer signs up, creates orders and pays, and the
\* polling endpoint and the webhook run concurrently.  D is the set of
\* outcomes a database call may have (TRUE: it succeeds).
PayHeaders == {Bearer(t) : t \in issued}

PayEnv ==
    \/ signup("a@x", "pw1", "pw1", TRUE, TRUE, TRUE)
    \/ \E o \in OrderIds : GatewayPay(o)

PayCreate(D) ==
    \E h \in PayHeaders, plan \in Plans, gw \in {"ok", "nocf", "fail"}, db \in D :
        create_payment(h, TRUE, plan, TRUE, gw, db)

PayPoll(D) ==
    \E r \in ReqIds :
        \/ \E h \in PayHeaders, o \in OrderIds, gw \in BOOLEAN : PollStart(r, h, TRUE, o, gw)
        \/ \E db \in D : PollSelect(r, db)
        \/ \E db \in D : PollUpdateSubscription(r, db)
        \/ \E db \in D : PollSavePayment(r, db)
        \/ \E db \in D : PollMark(r, db)

PayWebhook(D) ==
    \E r \in ReqIds :
        \/ \E o \in OrderIds, valid \in BOOLEAN, gw \in BOOLEAN : WebhookStart(r, o, valid, gw)
        \/ \E db \in D : WebhookLock(r, db)
        \/ \E db \in D : WebhookApply(r, db)

NextPay == PayEnv \/ PayCreate(BOOLEAN) \/ PayPoll(BOOLEAN) \/ PayWebhook(BOOLEAN)

SpecPay == Init /\ [][NextPay]_vars

\* The same flow when every database call succeeds and every started
\* handler runs to its end (a worker thread is never abandoned).
NextPayLive == PayEnv \/ PayCreate({TRUE}) \/ PayPoll({TRUE}) \/ PayWebhook({TRUE})

HandlerStep(r) ==
    \/ PollSelect(r, TRUE)
    \/ PollUpdateSubscription(r, TRUE)
    \/ PollSavePayment(r, TRUE)
    \/ PollMark(r, TRUE)
    \/ WebhookLock(r, TRUE)
    \/ WebhookApply(r, TRUE)

FairSpecPay ==
    Init /\ [][NextPayLive]_vars /\ \A r \in ReqIds : WF_vars(HandlerStep(r))

\* The payment flow with two customers, either of whom may create the order
\* and either of whom may poll for it; every database call succeeds.
OwnersEnv ==
    \/ \E e \in Emails : signup(e, "pw1", "pw1", TRUE, TRUE, TRUE)
    \/ \E o \in OrderIds : GatewayPay(o)

OwnersCreate ==
    \E h \in PayHeaders, plan \in Plans : create_payment(h, TRUE, plan, TRUE, "ok", TRUE)

NextPayOwners == OwnersEnv \/ OwnersCreate \/ PayPoll({TRUE}) \/ PayWebhook({TRUE})

SpecPayOwners == Init /\ [][NextPayOwners]_vars

\* Video generation: a customer signs up, the subscription may be set to a
\* lapsed date, and generate_video requests run concurrently.
VideoEnv ==
    \/ signup("a@x", "pw1", "pw1", TRUE, TRUE, TRUE)
    \/ \E u \in UserIds, fields \in BOOLEAN :
          update_subscription(u, "free", Date(now) - 1, fields, TRUE)

VideoGenerate ==
    \E r \in ReqIds :
        \/ \E h \in PayHeaders, dbCount \in BOOLEAN,
              form \in {"ok", "bad_number", "missing_files"} :
              GenStart(r, h, TRUE, dbCount, form)
        \/ \E io \in BOOLEAN, name \in UploadNames : GenUpload(r, io, name)
        \/ \E ok \in BOOLEAN, f \in Filenames : GenRender(r, ok, f)
        \/ \E db \in BOOLEAN : GenSave(r, db)

NextVideo == VideoEnv \/ VideoGenerate

SpecVideo == Init /\ [][NextVideo]_vars

\* Sessions: customers sign up, sign in and log out, the clock advances, and
\* token-protected endpoints are called with every kind of header.
AuthSession ==
    \/ \E e \in Emails, cpw \in Passwords, fields \in BOOLEAN, db \in BOOLEAN :
          signup(e, "pw1", cpw, fields, db, TRUE)
    \/ \E e \in Emails, pw \in Passwords, fields \in BOOLEAN, db \in BOOLEAN :
          signin(e, pw, fields, db)
    \/ \E e \in Emails, fields \in BOOLEAN, db \in BOOLEAN : get_session(e, fields, db)
    \/ Tick

AuthProtected ==
    \E h \in Headers, dbAuth \in BOOLEAN :
        \/ \E db \in BOOLEAN : logout(h, dbAuth, db)
        \/ check_video_limit(h, dbAuth)

NextAuth == AuthSession \/ AuthProtected

SpecAuth == Init /\ [][NextAuth]_vars

\* The video library: two customers sign up and generate videos one after
\* the other, and the videos are listed, served, deleted and cleared.  Clients send no header or a token
\* they were issued.
LibraryHeaders == {NoHeader} \cup PayHeaders

LibraryEnv ==
    \E e \in Emails : signup(e, "pw1", "pw1", TRUE, TRUE, TRUE)

LibraryGenerate ==
    \/ \E h \in PayHeaders : GenStart(1, h, TRUE, TRUE, "ok")
    \/ GenUpload(1, TRUE, "take_1")
    \/ \E f \in Filenames : GenRender(1, TRUE, f)
    \/ \E db \in BOOLEAN : GenSave(1, db)

LibraryAccess ==
    \E h \in LibraryHeaders :
        \/ \E video_id \in VideoKeys, filename \in VideoKeys, rm \in BOOLEAN :
              delete_video(h, TRUE, TRUE, video_id, filename, "ok", rm)
        \/ \E filename \in Filenames, db \in {"down", "select_fails", "delete_fails"} :
              delete_video(h, TRUE, TRUE, "", filename, db, TRUE)
        \/ delete_video(h, TRUE, FALSE, "", "", "ok", TRUE)
        \/ \E page \in 1..2, limit \in 1..2 : get_videos(h, TRUE, TRUE, page, limit, TRUE)
        \/ \E args \in BOOLEAN, db \in BOOLEAN : get_videos(h, TRUE, args, 1, 1, db)
        \/ \E filename \in Filenames, db \in BOOLEAN : serve_video(h, filename, db)
        \/ \E io \in BOOLEAN, db \in BOOLEAN : clear_cache_route(h, TRUE, io, db)

NextLibrary == LibraryEnv \/ LibraryGenerate \/ LibraryAccess

SpecLibrary == Init /\ [][NextLibrary]_vars

\* The slide-building loop on every form and voice track within the bounds.
SlideInputs ==
    \E voice_duration \in 0..MaxVoice, min_time \in 0..MaxTime,
       max_time \in 0..MaxTime, images \in 0..MaxImages :
        SlideLoopBegin(voice_duration, min_time, max_time, images)

NextSlides == SlideInputs \/ SlideLoopStep \/ SlideLoopEnd

SpecSlides == Init /\ [][NextSlides]_vars

\* Registration under concurrency: signup requests for any email are served
\* by two workers.
SignupArrives ==
    \E r \in ReqIds, e \in Emails, pw \in Passwords, cpw \in Passwords,
       fields \in BOOLEAN, db \in BOOLEAN :
        SignupLookup(r, e, pw, cpw, fields, db)

SignupCompletes ==
    \E r \in ReqIds, db \in {"ok", "insert_fails", "update_fails"}, mail \in BOOLEAN :
        SignupInsert(r, db, mail)

NextSignup == SignupArrives \/ SignupCompletes

SpecSignup == Init /\ [][NextSignup]_vars

\* Password reset requests: customers sign up, the clock advances, and reset
\* links are requested for registered and unregistered emails.
ResetEnv ==
    \/ signup("a@x", "pw1", "pw1", TRUE, TRUE, TRUE)
    \/ Tick

\* tokens a client may send to reset_password: the ones mailed in reset
\* links, session tokens, and copies of either with a signature that fails
ResetInputs ==
    LET held == {m[3] : m \in {x \in outbox : x[1] = "reset"}} \cup issued
    IN held \cup {[t EXCEPT !.sig = "bad"] : t \in held}

ResetRequest ==
    \/ \E e \in Emails, fields \in BOOLEAN, db \in BOOLEAN, mail \in BOOLEAN :
          /\ \A u \in UserByEmail(e) : Len(resetLog[u]) <= MaxResets
          /\ forgot_password(e, fields, db, mail)
    \/ \E token \in ResetInputs, new_password \in Passwords, fields \in BOOLEAN,
          db \in BOOLEAN :
          reset_password(token, new_password, fields, db)

NextReset == ResetEnv \/ ResetRequest

SpecReset == Init /\ [][NextReset]_vars

\* ------------------------------------------------------------------ claims
Quiescent == \A r \in ReqIds : reqs[r] = Idle

CreditsBy(o, by) == {i \in 1..Len(creditLog[o]) : creditLog[o][i].by = by}

\* C1 (as claimed): under every interleaving of payment_success polls and
\* payment_webhook deliveries for a PAID order, the subscription is credited
\* at most once (one users update, one payments row) and the order is
\* marked COMPLETED at most once.
C1_CreditedAtMostOnce ==
    \A o \in OrderIds :
        /\ Len(creditLog[o]) <= 1
        /\ payments[o] <= 1
        /\ completions[o] <= 1

\* C2 (as claimed): of the webhook deliveries for one PAID order only the
\* first one received updates the subscription and inserts a payments row.
C2_OnlyFirstDeliveryCredits ==
    \A o \in OrderIds : \A i \in CreditsBy(o, "webhook") : creditLog[o][i].seq = 1

\* C2 (amended): at most one webhook delivery per order commits the
\* subscription update and the payments insert; every delivery that reads the
\* order's status after that finds it COMPLETED and changes no table.
C2_OneWebhookCredit ==
    /\ [](\A o \in OrderIds : Cardinality(CreditsBy(o, "webhook")) <= 1)
    /\ [][\A r \in ReqIds :
            (/\ reqs[r].kind = "payment_webhook"
             /\ reqs[r].pc = "lock"
             /\ StoredStatus(reqs[r].order) = "COMPLETED"
             /\ reqs'[r] # reqs[r])
            => UNCHANGED <<users, payment_orders, payments>>]_vars

\* C2 witness: a second delivery for an order the webhook has completed was
\* answered "already processed".
C2_Witness ==
    \E o \in OrderIds :
        /\ CreditsBy(o, "webhook") # {}
        /\ deliveries[o] >= 2
        /\ resp.ep = "payment_webhook" /\ resp.msg = "already processed"

\* C3 (as claimed): payment_success called for an order whose stored status
\* is already COMPLETED performs no subscription update.
C3_PollGuardedByStatus ==
    \A o \in OrderIds : \A i \in CreditsBy(o, "poll") : creditLog[o][i].st0 # "COMPLETED"

\* C4 (as claimed): once no request is in flight, a payments row exists for
\* an order exactly when its payment_orders row is COMPLETED.
C4_LedgerIffCompleted ==
    Quiescent =>
        \A o \in OrderIds : (payments[o] > 0) <=> (StoredStatus(o) = "COMPLETED")

\* the order's user was credited with the order's plan
Credited(o) ==
    \E i \in 1..Len(creditLog[o]) :
        LET c == creditLog[o][i] IN
        /\ c.user = payment_orders[o].user_id
        /\ c.subscription = payment_orders[o].subscription_type
        /\ c.subscription_expiry = c.day + payment_orders[o].duration_days

\* C5: when the gateway has reported an order PAID to a webhook delivery or to
\* a poll by the order's owner, and the database calls succeed, the order
\* eventually is COMPLETED and its owner credited with the order's
\* subscription_type and duration_days.
C5_PaidOrderCompletes ==
    \A r \in ReqIds : \A o \in OrderIds :
        (/\ reqs[r].pc \in {"select", "lock"}
         /\ reqs[r].order = o
         /\ o \in DOMAIN payment_orders
         /\ reqs[r].kind = "payment_success" => reqs[r].user = payment_orders[o].user_id)
        ~> (StoredStatus(o) = "COMPLETED" /\ Credited(o))

\* C5 witness: a poll of an INITIATED order left it COMPLETED and credited
C5_Witness ==
    \E o \in OrderIds :
        /\ StoredStatus(o) = "COMPLETED"
        /\ Credited(o)
        /\ creditLog[o][1].by = "poll" /\ creditLog[o][1].st0 = "INITIATED"

\* endpoints registered behind token_required
ProtectedEndpoints ==
    {"logout", "check_video_limit", "create_payment", "payment_success",
     "generate_video"}

\* the step answers a request at the point where its decorator ran
Answered == resp' # resp /\ reqs' = reqs

\* a header that is missing or malformed, or whose token has a bad
\* signature, is expired, or names no user
BadCredentials(h) ==
    \/ h.kind \in {"none", "nospace"}
    \/ h.token.sig # "good"
    \/ h.token.exp <= now
    \/ h.token.user_id \notin DOMAIN users

Tables == <<users, payment_orders, payments, videos, outFiles, inputFiles>>

\* C6 (as claimed): a request to a token_required endpoint with a missing
\* or malformed header, or a token that has a bad signature, is expired or
\* names no user, is answered 401 and changes no database or file state.
C6_BadCredentialsGet401 ==
    [][(Answered /\ resp'.ep \in ProtectedEndpoints /\ BadCredentials(resp'.hdr))
          => (resp'.code = 401 /\ UNCHANGED Tables)]_vars

\* a generate_video request passed its decorator and its limit check
Admitted(r) == reqs[r] = Idle /\ reqs'[r].kind = "generate_video"

\* C7 (as claimed): generate_video from a user whose subscription_expiry is
\* earlier than today is rejected; it never gets as far as creating a video.
C7_LapsedUserRejected ==
    [][\A r \in ReqIds :
          Admitted(r) => users[reqs'[r].user].subscription_expiry >= Date(now)]_vars

\* C8 (as claimed): once a user has logged out and not signed in again
\* (auth_key is NULL), a request to a token-protected endpoint bearing a
\* token issued to that user earlier is rejected.
C8_LogoutInvalidatesToken ==
    [][(/\ Answered
        /\ resp'.ep \in ProtectedEndpoints
        /\ resp'.hdr.kind = "bearer"
        /\ resp'.hdr.token \in issued
        /\ users[resp'.hdr.token.user_id].auth_key = NoToken)
          => resp'.code = 401]_vars

\* C9 (as claimed): generate_video called by a user who owns
\* MAX_VIDEOS_PER_USER or more videos rows is answered 403 and goes no
\* further (the videos table and the folders stay as they are).
C9_LimitBlocksGeneration ==
    [][\A r \in ReqIds :
          Admitted(r) => RowCount(reqs'[r].user) < MAX_VIDEOS_PER_USER]_vars

\* C10 (as claimed): in every reachable state no user owns more than
\* MAX_VIDEOS_PER_USER videos rows.
C10_VideoCapHolds ==
    \A u \in UserIds : RowCount(u) <= MAX_VIDEOS_PER_USER

\* the user a header authenticates, 0 when it authenticates nobody
Caller(h) == token_required(h, TRUE).user

\* the step is a delete_video call that removed a row or a file (the
\* generate_video steps that write them also move their request on)
Deleted ==
    /\ resp'.ep = "delete_video"
    /\ reqs' = reqs
    /\ <<videos, outFiles>>' # <<videos, outFiles>>

\* C11 (as claimed): delete_video called by user A, with any videoId and
\* filename, removes no videos row and no video file of another user B.
C11_DeleteSparesOtherUsers ==
    [][Deleted =>
          \A u \in UserIds \ {Caller(resp'.hdr)} :
              /\ outFiles'[u] = outFiles[u]
              /\ \A f \in Filenames : videos'[<<u, f>>] = videos[<<u, f>>]]_vars

\* C12 (as claimed): a video is served or listed only to a requester who is
\* authenticated as its owner.
C12_OnlyOwnerSeesVideo ==
    (resp.ep \in {"serve_video", "get_videos"} /\ resp.code = 200)
        => \A k \in resp.body : Caller(resp.hdr) = k[1]

\* C20 (as claimed): delete_video called by an authenticated user with
\* neither videoId nor filename is answered 400 and changes no state, and no
\* exit path of delete_video raises instead of returning its JSON response.
C20_DeleteAnswersInJson ==
    [][/\ \A h \in LibraryHeaders :
            (Caller(h) # 0 /\ delete_video(h, TRUE, TRUE, "", "", "ok", TRUE))
                => (resp'.code = 400 /\ UNCHANGED Tables)
       /\ resp'.ep = "delete_video" => resp'.msg # "raised"]_vars

RECURSIVE SumSeq(_)
SumSeq(q) == IF q = <<>> THEN 0 ELSE Head(q) + SumSeq(Tail(q))

\* C13 (as claimed): when the slide-building loop of a request with at least
\* one image ends, the slide durations add up to the voice track's duration
\* and every slide lasts at most maxTime.
C13_SlidesFillVoiceTrack ==
    (slides.pc = "done" /\ slides.image_paths >= 1) =>
        /\ SumSeq(slides.durations) = slides.voice_duration
        /\ \A i \in 1..Len(slides.durations) : slides.durations[i] <= slides.max_time

\* C14: a videos row is inserted only by a request whose rendering has
\* completed (its file is in the user's output folder), and a generate_video
\* request that fails while saving its inputs or rendering is answered 500
\* and leaves the videos table unchanged.
C14_RowOnlyAfterRender ==
    [][/\ videos' # videos =>
             \E r \in ReqIds :
                 /\ reqs[r].kind = "generate_video" /\ reqs[r].pc = "save"
                 /\ reqs[r].filename \in outFiles[reqs[r].user]
                 /\ videos' = save_video_record(reqs[r].user, reqs[r].filename)
       /\ \A r \in ReqIds :
             (/\ reqs[r].kind = "generate_video"
              /\ reqs[r].pc \in {"upload", "render"}
              /\ reqs'[r] = Idle)
                 => (resp'.ep = "generate_video" /\ resp'.code = 500
                     /\ UNCHANGED videos)]_vars

\* C14 witness: a request whose rendering failed after its inputs were saved
\* was answered 500 and no row exists
C14_Witness ==
    /\ Quiescent
    /\ resp.ep = "generate_video" /\ resp.code = 500
    /\ \E d \in InputFolders : inputFiles[d] # {}
    /\ \A u \in UserIds : RowCount(u) = 0

\* C15: signup with a password different from confirmPassword is answered
\* 400, creates no users row, issues no token and sends no email.
C15_MismatchedPasswordsRejected ==
    [][\A e \in Emails, pw \in Passwords, cpw \in Passwords, fields \in BOOLEAN,
          db \in BOOLEAN :
          (pw # cpw /\ resp'.ep = "signup" /\ signup(e, pw, cpw, fields, db, TRUE))
              => (/\ resp'.code = 400
                  /\ resp'.token = NoToken
                  /\ UNCHANGED <<users, issued, outbox>>)]_vars

\* C15 witness: a signup was answered 400 'Passwords do not match' when
\* another user is already registered
C15_Witness ==
    /\ resp.ep = "signup" /\ resp.code = 400 /\ resp.msg = "Passwords do not match"
    /\ Len(users) = 1

\* C17: signin that carries an existing email and a password different from
\* the stored one is answered 401, returns no token and leaves auth_key (and
\* the whole users table) unchanged.
C17_WrongPasswordRejected ==
    [][\A e \in Emails, pw \in Passwords :
          (/\ resp'.ep = "signin"
           /\ \E u \in UserByEmail(e) : users[u].password # pw
           /\ signin(e, pw, TRUE, TRUE))
              => (/\ resp'.code = 401
                  /\ resp'.token = NoToken
                  /\ UNCHANGED <<users, issued>>)]_vars

\* C17 witness: a signin was answered 401 while the user holds a session token
C17_Witness ==
    /\ resp.ep = "signin" /\ resp.code = 401
    /\ \E u \in DOMAIN users : users[u].auth_key # NoToken

\* C18: a token returned by signin, signup or /session is the user's auth_key
\* when it is returned, and a token issued by the step expires JWT_EXPIRATION
\* seconds after the time of issue.
C18_TokenExpiryAndStorage ==
    [][(/\ resp' # resp
        /\ resp'.ep \in {"signin", "signup", "session"}
        /\ resp'.token # NoToken)
          => (/\ resp'.token.user_id \in DOMAIN users'
              /\ users'[resp'.token.user_id].auth_key = resp'.token
              /\ resp'.token \notin issued => resp'.token.exp = now + JWT_EXPIRATION)]_vars

\* C18 witness: /session replaced an expired token and returned the new one
C18_Witness ==
    /\ resp.ep = "session" /\ resp.token # NoToken
    /\ now > 0 /\ resp.token.exp = now + JWT_EXPIRATION
    /\ users[resp.token.user_id].auth_key = resp.token

\* C16 (as claimed): after any interleaving of signup requests no two users
\* rows have the same email (a signup for a registered email inserts nothing).
C16_EmailsUnique ==
    \A u \in DOMAIN users : \A v \in DOMAIN users :
        users[u].email = users[v].email => u = v

\* C19 (as claimed): forgot_password answers a request for a registered email
\* with the same status and body as a request for an unregistered one, which
\* is 200 'If the email exists, a reset link will be sent'; also when the
\* email cannot be delivered.
C19_ForgotPasswordHidesExistence ==
    [][\A e \in Emails, mail \in BOOLEAN :
          (resp'.ep = "forgot_password" /\ forgot_password(e, TRUE, TRUE, mail))
              => (/\ resp'.code = 200
                  /\ resp'.msg = "If the email exists, a reset link will be sent")]_vars

\* a token reset_password must refuse: its exp has passed, it is not the
\* user's stored reset_token, or the stored reset_token_expiry has passed
Unusable(token) ==
    \/ token.exp <= now
    \/ token.user_id \notin DOMAIN users
    \/ users[token.user_id].reset_token # token
    \/ /\ users[token.user_id].reset_token_expiry # 0
       /\ users[token.user_id].reset_token_expiry < now

\* C21: reset_password with a token whose exp has passed, whose stored
\* reset_token_expiry has passed, or that is not the user's stored reset_token
\* is answered 400 (the database answering) and leaves password, reset_token
\* and reset_token_expiry, the whole users table, unchanged.
C21_BadResetTokenRejected ==
    [][\A token \in ResetInputs, new_password \in Passwords, db \in BOOLEAN :
          (/\ resp'.ep = "reset_password"
           /\ Unusable(token)
           /\ reset_password(token, new_password, TRUE, db))
              => (/\ db => resp'.code = 400
                  /\ resp'.code # 200
                  /\ UNCHANGED users)]_vars

\* C21 witness: a reset link that had expired was refused while it is still
\* the user's stored reset_token
C21_Witness ==
    /\ resp.ep = "reset_password" /\ resp.code = 400 /\ resp.msg = "Token expired"
    /\ \E u \in DOMAIN users :
          users[u].reset_token # NoToken /\ users[u].reset_token.exp <= now

Last(q) == q[Len(q)]

WebhookStep ==
    \/ \E r \in ReqIds :
          /\ reqs'[r] # reqs[r]
          /\ reqs[r].kind = "payment_webhook" \/ reqs'[r].kind = "payment_webhook"
    \/ calls' = calls + 1 /\ reqs' = reqs /\ resp'.ep = "payment_webhook"

\* C23: payment_webhook is all-or-nothing: a step of the handler either leaves
\* users, payments and payment_orders as they were, or sets the order owner's
\* subscription and expiry, adds the order's payments row and marks the order
\* COMPLETED together and answers 200; a webhook that answers anything else
\* has changed none of the three.
C23_WebhookAllOrNothing ==
    [][WebhookStep =>
          /\ \/ UNCHANGED <<users, payments, payment_orders>>
             \/ \E o \in DOMAIN payment_orders :
                   LET row == payment_orders[o] IN
                   /\ users'[row.user_id].subscription = row.subscription_type
                   /\ users'[row.user_id].subscription_expiry =
                          Date(now) + row.duration_days
                   /\ payments'[o] = payments[o] + 1
                   /\ payment_orders'[o].status = "COMPLETED"
                   /\ resp'.ep = "payment_webhook" /\ resp'.code = 200
          /\ (resp' # resp /\ resp'.code # 200)
                => UNCHANGED <<users, payments, payment_orders>>]_vars

\* C23 witness: a webhook for a PAID order failed inside its transaction and
\* answered 500 with the order still INITIATED and no payments row
C23_Witness ==
    /\ resp.ep = "payment_webhook" /\ resp.code = 500
    /\ \E o \in DOMAIN payment_orders :
          /\ gateway[o] = "PAID"
          /\ rowLock[o] = 0
          /\ payment_orders[o].status = "INITIATED"
          /\ payments[o] = 0
          /\ creditLog[o] = <<>>
          /\ users[payment_orders[o].user_id].subscription = "free"

\* a request of the payment flow that got past its gateway fetch and moves on
\* in this step, for an order the gateway holds as PAID
ConfirmedStep(o) ==
    \E r \in ReqIds :
        /\ reqs[r].kind \in {"payment_success", "payment_webhook"}
        /\ reqs'[r] # reqs[r]
        /\ reqs[r].order = o
        /\ o \in DOMAIN gateway /\ gateway[o] = "PAID"

\* C24: an order becomes COMPLETED, gets a payments row, or credits a
\* subscription only in a step of a request whose gateway fetch answered 200
\* PAID for that order; a payment_success or payment_webhook that answers at
\* once, on a non-200 or non-PAID gateway answer, changes no table.
C24_CreditNeedsGatewayPaid ==
    [][/\ \A o \in DOMAIN payment_orders :
             (\/ payment_orders'[o].status # payment_orders[o].status
              \/ payments'[o] # payments[o]
              \/ creditLog'[o] # creditLog[o]) => ConfirmedStep(o)
       /\ \A u \in DOMAIN users :
             (\/ users'[u].subscription # users[u].subscription
              \/ users'[u].subscription_expiry # users[u].subscription_expiry)
                 => \E o \in DOMAIN payment_orders : ConfirmedStep(o)
       /\ (calls' = calls + 1 /\ reqs' = reqs)
             => UNCHANGED <<users, payments, payment_orders>>]_vars

\* C24 witness: an order was credited and completed after the gateway answered
\* PAID, and a later payment_success whose gateway fetch failed answered 400
C24_Witness ==
    /\ resp.ep = "payment_success" /\ resp.code = 400
    /\ \E o \in DOMAIN payment_orders :
          /\ payment_orders[o].status = "COMPLETED"
          /\ gateway[o] = "PAID"
          /\ Len(creditLog[o]) >= 1

\* C25: a confirmed payment credits only the user who created the order: a
\* payment_success request of a user other than the order's creator changes
\* no users, payment_orders or payments state in any of its steps, and whenever
\* a subscription changes it is the subscription of the user_id of the order
\* the acting request is about.
C25_OnlyOrderCreatorCredited ==
    [][/\ \A r \in ReqIds :
             (/\ reqs[r].kind = "payment_success"
              /\ reqs'[r] # reqs[r]
              /\ reqs[r].order \in DOMAIN payment_orders
              /\ payment_orders[reqs[r].order].user_id # reqs[r].user)
                 => UNCHANGED <<users, payment_orders, payments>>
       /\ \A u \in DOMAIN users :
             (\/ users'[u].subscription # users[u].subscription
              \/ users'[u].subscription_expiry # users[u].subscription_expiry)
                 => \E r \in ReqIds :
                       /\ reqs[r].kind \in {"payment_success", "payment_webhook"}
                       /\ reqs'[r] # reqs[r]
                       /\ payment_orders[reqs[r].order].user_id = u]_vars

\* C25 witness: payment_success for a PAID order, called with the token of a
\* user who did not create it, has answered and nobody was credited
C25_Witness ==
    /\ resp.ep = "payment_success" /\ resp.code = 200 /\ resp.msg = "PAID"
    /\ \E o \in DOMAIN payment_orders, t \in issued :
          /\ resp.hdr = Bearer(t)
          /\ t.user_id # payment_orders[o].user_id
          /\ payment_orders[o].status = "INITIATED"
          /\ creditLog[o] = <<>>
          /\ \A u \in DOMAIN users : users[u].subscription = "free"

\* C26 (as claimed): the slide-building loop ends for every request with at
\* least one image and a positive voice duration, whatever minTime and maxTime
\* the form carries.  For the loop to end, an iteration must be able to move
\* total_duration towards voice_duration: while the loop condition holds, some
\* duration get_random_duration may return, trimmed to the time left, is positive.
C26_SlideLoopCanAdvance ==
    (slides.pc = "loop" /\ LoopCondition) =>
        \E drawn \in get_random_duration(slides.min_time, slides.max_time) :
            Min(drawn, slides.voice_duration - slides.total_duration) > 0

\* C27 (as claimed): a response carries a valid session token only when it
\* answers the signup that created the user or a signin with the user's
\* password; no other endpoint hands out a usable token.
C27_TokenOnlyFromSignupOrSignin ==
    (resp.token # NoToken /\ resp.token.sig = "good" /\ JwtValid(resp.token))
        => resp.ep \in {"signup", "signin"}

\* C28 (as claimed): once a user has signed up, subscription and
\* subscription_expiry change only in a step of a payment_success or
\* payment_webhook request for an order of that user which the gateway holds
\* as PAID.
C28_SubscriptionOnlyByPaidOrder ==
    [][\A u \in DOMAIN users :
          (\/ users'[u].subscription # users[u].subscription
           \/ users'[u].subscription_expiry # users[u].subscription_expiry)
              => \E r \in ReqIds :
                    /\ reqs[r].kind \in {"payment_success", "payment_webhook"}
                    /\ reqs'[r] # reqs[r]
                    /\ reqs[r].order \in DOMAIN payment_orders
                    /\ payment_orders[reqs[r].order].user_id = u
                    /\ gateway[reqs[r].order] = "PAID"]_vars

\* C29 (as claimed): concurrent generate_video requests do not interfere:
\* whenever a request's rendering succeeds, the files it read from the three
\* input folders are exactly the files that request uploaded.
C29_RendersOwnUploads ==
    [][\A r \in ReqIds :
          (/\ reqs[r].kind = "generate_video"
           /\ reqs[r].pc = "render"
           /\ reqs'[r].pc = "save")
              => \A d \in InputFolders :
                    inputFiles[d] = {<<reqs[r].upload, reqs[r].seq>>}]_vars

\* C30 (as claimed): once every generate_video, delete_video and clear_cache
\* request has completed, each user's videos rows and the files in that
\* user's output folder correspond one to one: every file has exactly one row
\* and every row has its file.
C30_RowsMatchFiles ==
    Quiescent =>
        \A u \in UserIds, f \in Filenames :
            videos[<<u, f>>] = (IF f \in outFiles[u] THEN 1 ELSE 0)

====
